---------------------------- MODULE Spec2Model ----------------------------
(***************************************************************************)
(* Model of the product substitution service (FastAPI + RAG pipeline).     *)
(*                                                                         *)
(*   main.py         get_substitutes: per-client daily quota, then a       *)
(*                   StreamingResponse whose event_stream bridges the      *)
(*                   pipeline thread to the caller through                 *)
(*                   loop.call_soon_threadsafe and an asyncio.Queue.       *)
(*   rag_pipeline.py find_substitutes: validation, cached retrieval,       *)
(*                   cached ranking, enrichment and pricing; _cache_get,   *)
(*                   _cache_set, _search_key, _gemini_key.                 *)
(*                                                                         *)
(* External collaborators (Qdrant search, Gemini ranking, MySQL catalog)   *)
(* are nondeterministic: each call returns one of a bounded set of         *)
(* answers or raises.                                                      *)
(***************************************************************************)
EXTENDS Integers, Sequences, FiniteSets, TLC

(***************************************************************************)
(* Bounds of the model.                                                    *)
(***************************************************************************)
MaxReq == 2        \* requests in flight at one time (request slots 1..MaxReq)
NumClients == 2    \* client identities (req.client.host)
MaxDay == 1        \* date.today() ranges over 0..MaxDay
MaxTime == 1       \* time.time() ranges over 0..MaxTime
MaxHits == 4       \* hits the collection holds for one query
MaxResults == 3    \* largest n_results of a direct vector search
TTL == 1           \* the positive CACHE_TTL of the caching specifications
Quota == 2         \* the MAX_REQUESTS_PER_USER of the specifications

Req == 1..MaxReq
Clients == 1..NumClients

VARIABLES
    CACHE_TTL,              \* config.CACHE_TTL, read once at import
    MAX_REQUESTS_PER_USER,  \* config.MAX_REQUESTS_PER_USER, read once at import
    today,                  \* what date.today() returns
    now,                    \* what time.time() returns
    _request_counts,        \* main._request_counts: dict client -> (date, count)
    _search_cache,          \* rag_pipeline._search_cache: dict key -> (ts, payload)
    _gemini_cache,          \* rag_pipeline._gemini_cache: dict key -> (ts, payload)
    searchWritten,          \* history: the last completed _cache_set per key of _search_cache
    geminiWritten,          \* history: the last completed _cache_set per key of _gemini_cache
    admitted,               \* history: requests admitted per client and date
    vsearch,                \* a direct call of vector_store.search_similar_products, or None
    req                     \* per request: handler outcome, pipeline thread, queue bridge

vars == <<CACHE_TTL, MAX_REQUESTS_PER_USER, today, now, _request_counts,
          _search_cache, _gemini_cache, searchWritten, geminiWritten, admitted,
          vsearch, req>>

(***************************************************************************)
(* Python values.  None is the empty tuple and a present value v is <<v>>; *)
(* a dict is a function whose DOMAIN is its key set, so that a missing key *)
(* (KeyError, dict.get default) is a key outside the DOMAIN.               *)
(***************************************************************************)
None == <<>>
Some(v) == <<v>>
EmptyDict == [k \in {} |-> None]
DictSet(d, k, v) == (k :> v) @@ d
DictPop(d, k) == [x \in DOMAIN d \ {k} |-> d[x]]
DictGet(d, k, default) == IF k \in DOMAIN d THEN d[k] ELSE default

(***************************************************************************)
(* SubstitutionRequest.model_dump(): the source item of a request.         *)
(* Money amounts are fixed point, in thousandths of the currency unit      *)
(* (1000 is 1.00), so that round(x, 2) is a rounding to a multiple of 10;  *)
(* quantities are whole units.                                             *)
(***************************************************************************)
Item(sc, cat, up, tp) ==
    [name |-> "bolt", description |-> "", supercategory |-> sc, category |-> cat,
     quantity |-> 2, quantity_unit |-> "ea", unit_price |-> up, total_price |-> tp]

SourceItems ==
    { Item("Hardware", "Fasteners", 0, 0),
      Item("Hardware", "Fasteners", 3000, 0),
      Item("Hardware", "", 0, 0),
      Item("", "Fasteners", 0, 0) }

(***************************************************************************)
(* Cache fingerprints.  hashlib.md5(...).hexdigest() is modelled as        *)
(* collision free on the bounded inputs: the digest of a string is the     *)
(* string.  str(quantity) of the float quantity q.0 is "q.0".              *)
(***************************************************************************)
md5(s) == s
StrFloat(q) == ToString(q) \o ".0"

QueryText(source_item) ==
    IF source_item.description # ""
    THEN source_item.name \o "\n" \o source_item.description
    ELSE source_item.name

_search_key(query_text, supercategory, category) ==
    md5(query_text \o "|" \o supercategory \o "|" \o category)

_gemini_key(source_item) ==
    md5(source_item.name \o "|" \o source_item.description \o "|" \o
        source_item.supercategory \o "|" \o source_item.category \o "|" \o
        StrFloat(source_item.quantity) \o "|" \o source_item.quantity_unit)

SearchKeyOf(source_item) ==
    _search_key(QueryText(source_item), source_item.supercategory, source_item.category)

(***************************************************************************)
(* _cache_get / _cache_set.  _cache_get is two steps of the calling        *)
(* thread: the lookup with the freshness test (CacheFresh), and, when that *)
(* does not return the payload, store.pop(key, None) (DictPop).  No lock   *)
(* is held between them.                                                   *)
(***************************************************************************)
CacheEnabled == CACHE_TTL > 0

CacheFresh(store, key) ==
    /\ CacheEnabled
    /\ key \in DOMAIN store
    /\ (now - store[key].ts) < CACHE_TTL

\* faulty variant of CacheSetStore: the entry is stored whatever CACHE_TTL is
CacheSetStoreAlways(store, key, value) ==
    DictSet(store, key, [ts |-> now, payload |-> value])

\* _cache_set: if CACHE_TTL > 0: store[key] = (time.time(), value)
CacheSetStore(store, key, value) ==
    IF CACHE_TTL > 0 THEN DictSet(store, key, [ts |-> now, payload |-> value]) ELSE store

(***************************************************************************)
(* Stream events.                                                          *)
(***************************************************************************)
Sentinel == [sentinel |-> TRUE]
StatusEvent(m) == [type |-> "status", message |-> m]
ErrorEvent(m) == [type |-> "error", message |-> m]
ResultEvent(d) == [type |-> "result", data |-> d]

IsTerminal(e) == e # Sentinel /\ e.type \in {"result", "error"}

(***************************************************************************)
(* Answers of the external collaborators.                                  *)
(*   search_similar_products: a list of candidates (by SKU), or raises.    *)
(*   rank_substitutes: json.loads of the model's answer, or raises.  The   *)
(*     schema is only a request to the model: nothing in the repository    *)
(*     validates the parsed answer, so malformed answers are possible      *)
(*     return values.                                                      *)
(*   get_products_by_skus: the catalog rows of the SKUs that exist.        *)
(***************************************************************************)
CandidateLists == { <<>>, <<"p1">>, <<"p2", "p1">> }

Sub(sku, rank, qty) ==
    [sku |-> sku, rank |-> rank, reason |-> "fits", unit_type |-> "DIVISIBLE",
     qty_needed |-> qty, comparison_notes |-> "calc"]

RequiredFields == {"sku", "rank", "reason", "unit_type", "qty_needed", "comparison_notes"}

\* a dict without the given key
Without(d, k) == [x \in DOMAIN d \ {k} |-> d[x]]

RankGood == [substitutes |-> <<Sub("p1", 1, 1), Sub("p2", 2, 2)>>]
RankNoReason == [substitutes |-> <<Without(Sub("p1", 1, 1), "reason")>>]
RankZeroQty == [substitutes |-> <<Sub("p1", 1, 0)>>]
RankDupRank == [substitutes |-> <<Sub("p1", 1, 1), Sub("p2", 1, 1)>>]
RankBadRank == [substitutes |-> <<Sub("p1", 7, 1)>>]

RankResponses == { RankGood, RankNoReason, RankZeroQty, RankDupRank, RankBadRank }

\* the answers drawn in the specification of the concurrent cached stages
CacheLists == { <<>>, <<"p1">> }
CacheAnswers == { RankGood, RankZeroQty }

Product(sku, price) ==
    [sku |-> sku, name |-> sku, brand_name |-> "acme",
     customer_price |-> price, web_price |-> price + 1000, uom |-> "Each", uom_qty |-> 1]

\* the catalog (rows by SKU) at the time of the fetch
Catalogs == { ("p1" :> Product("p1", 2000)) @@ ("p2" :> Product("p2", 1000)),
              ("p2" :> Product("p2", 1000)) }

(***************************************************************************)
(* A ranking answer is well formed (spec 4.4) when every item has every    *)
(* required field, a positive qty_needed, and the ranks are 1..n without   *)
(* repetition.                                                             *)
(***************************************************************************)
SubsOf(gemini_result) == DictGet(gemini_result, "substitutes", <<>>)

ItemWellFormed(sub, n) ==
    /\ RequiredFields \subseteq DOMAIN sub
    /\ sub.qty_needed > 0
    /\ sub.rank \in 1..n

WellFormed(gemini_result) ==
    LET subs == SubsOf(gemini_result) IN
    /\ "substitutes" \in DOMAIN gemini_result
    /\ \A i \in DOMAIN subs : ItemWellFormed(subs[i], Len(subs))
    /\ \A i, j \in DOMAIN subs : i # j => subs[i].rank # subs[j].rank

(***************************************************************************)
(* Steps 4 and 5 of find_substitutes as a function of the source item,     *)
(* the candidates, the ranking answer and the catalog: either the final    *)
(* result event or a raised KeyError.                                      *)
(***************************************************************************)
\* round(n / d) to the nearest integer, ties to even (Python's round), d # 0
RoundDiv(n, d) ==
    LET nn == IF d < 0 THEN -n ELSE n
        dd == IF d < 0 THEN -d ELSE d
        q == nn \div dd
        r == nn % dd
    IN  IF 2 * r < dd THEN q
        ELSE IF 2 * r > dd THEN q + 1
        ELSE IF q % 2 = 0 THEN q ELSE q + 1

\* round(x, 2) of an amount x in thousandths
Round2(x) == 10 * RoundDiv(x, 10)

\* faulty variant of TheirTotalSpend: a positive unit price comes first
TheirTotalSpendUnitFirst(source_item) ==
    IF source_item.unit_price > 0
    THEN source_item.unit_price * source_item.quantity
    ELSE source_item.total_price

\* their_total_spend after "if their_total_spend <= 0 and their_unit_price > 0"
TheirTotalSpend(source_item) ==
    IF source_item.total_price <= 0 /\ source_item.unit_price > 0
    THEN source_item.unit_price * source_item.quantity
    ELSE source_item.total_price

HasPricing(source_item) ==
    TheirTotalSpend(source_item) > 0 \/ source_item.unit_price > 0

\* product.get("customer_price") or product.get("web_price") or 0
OurUnitPrice(product) ==
    IF DictGet(product, "customer_price", 0) # 0 THEN product.customer_price
    ELSE DictGet(product, "web_price", 0)

\* savings_percentage in hundredths of a percent
SavingsPct(savings, their_total_spend) ==
    IF their_total_spend # 0 THEN RoundDiv(savings * 10000, their_total_spend) ELSE 0

\* one entry of the substitutes list; sub has every field that is read
EnrichedSubstitute(source_item, sub, product) ==
    LET our_unit_price == OurUnitPrice(product)
        our_total_spend == sub.qty_needed * our_unit_price
        their_total_spend == TheirTotalSpend(source_item)
        has_pricing == HasPricing(source_item)
        savings == their_total_spend - our_total_spend
    IN  [rank |-> sub.rank,
         reason |-> sub.reason,
         unit_type |-> sub.unit_type,
         qty_needed |-> sub.qty_needed,
         comparison_notes |-> sub.comparison_notes,
         sku |-> sub.sku,
         product_name |-> product.name,
         brand_name |-> DictGet(product, "brand_name", None),
         our_unit_price |-> our_unit_price,
         our_total_spend |-> Round2(our_total_spend),
         their_unit_price |-> IF has_pricing THEN Some(source_item.unit_price) ELSE None,
         their_total_spend |-> IF has_pricing THEN Some(Round2(their_total_spend)) ELSE None,
         savings |-> IF has_pricing THEN Some(Round2(savings)) ELSE None,
         savings_percentage |->
             IF has_pricing THEN Some(SavingsPct(savings, their_total_spend)) ELSE None]

\* db_products = {p["sku"]: p for p in get_products_by_skus(substitute_skus)}
DbProducts(catalog, subs) ==
    [k \in {subs[i].sku : i \in DOMAIN subs} \cap DOMAIN catalog |-> catalog[k]]

\* a KeyError: the SKU list comprehension, or a field read of a kept item
EnrichRaises(gemini_result, catalog) ==
    LET subs == SubsOf(gemini_result) IN
    \/ \E i \in DOMAIN subs : "sku" \notin DOMAIN subs[i]
    \/ \E i \in DOMAIN subs :
          /\ subs[i].sku \in DOMAIN catalog
          /\ ~ (RequiredFields \subseteq DOMAIN subs[i])

\* faulty variant of EnrichedList: the kept items come out in reverse order
EnrichedListReversed(source_item, gemini_result, catalog) ==
    LET subs == SubsOf(gemini_result)
        db == DbProducts(catalog, subs)
        InDb(sub) == sub.sku \in DOMAIN db
        kept == SelectSeq(subs, InDb)
    IN  [i \in DOMAIN kept |->
            EnrichedSubstitute(source_item, kept[Len(kept) + 1 - i],
                               db[kept[Len(kept) + 1 - i].sku])]

\* the substitutes list: the ranked items whose SKU is in db_products, in order
EnrichedList(source_item, gemini_result, catalog) ==
    LET subs == SubsOf(gemini_result)
        db == DbProducts(catalog, subs)
        InDb(sub) == sub.sku \in DOMAIN db
        kept == SelectSeq(subs, InDb)
    IN  [i \in DOMAIN kept |-> EnrichedSubstitute(source_item, kept[i], db[kept[i].sku])]

FinalResult(source_item, candidates, gemini_result, catalog) ==
    ResultEvent([source_item |-> source_item,
                 candidates_evaluated |-> Len(candidates),
                 substitutes |-> EnrichedList(source_item, gemini_result, catalog)])

EmptyResult(source_item) ==
    ResultEvent([source_item |-> source_item,
                 message |-> "No candidate products found in '" \o source_item.supercategory
                             \o " > " \o source_item.category \o "'.",
                 substitutes |-> <<>>])

(***************************************************************************)
(* State of one request.                                                   *)
(*   st        "idle" (not yet issued), "rejected" (HTTP 429), "admitted"  *)
(*   pc        position of the executor thread in run_pipeline /           *)
(*             find_substitutes                                            *)
(*   ready     callbacks scheduled by loop.call_soon_threadsafe and not    *)
(*             yet run by the event loop (each is queue.put_nowait(x))     *)
(*   queue     the asyncio.Queue of event_stream                           *)
(*   delivered what event_stream has yielded to the caller                 *)
(*   closed    event_stream has left its loop (the response is complete)   *)
(* History (read by no action):                                            *)
(*   produced  the events run_pipeline has pushed, in order                *)
(*   calls     calls made: search, rank, fetch (catalog), cache (reads     *)
(*             and writes of either cache)                                 *)
(*   sLook, gLook  outcome of the _cache_get on each cache                 *)
(*   sExpect, gExpect  the payload of the last completed _cache_set of the *)
(*             key, if it was within TTL when the _cache_get started       *)
(*   gPeer     when the ranking _cache_get started, a ranking answer for   *)
(*             an item equal to this one but for its prices had been       *)
(*             written within TTL                                          *)
(*   catalog   the catalog rows (by SKU) at the time of the fetch          *)
(***************************************************************************)
NoCalls == [search |-> 0, rank |-> 0, fetch |-> 0, cache |-> 0]

IdleReq ==
    [st |-> "idle", client |-> 0, item |-> None, requests_remaining |-> 0,
     pc |-> "none", candidates |-> <<>>, gemini_result |-> EmptyDict, exc |-> "",
     ready |-> <<>>, queue |-> <<>>, delivered |-> <<>>, closed |-> FALSE,
     produced |-> <<>>, calls |-> NoCalls,
     sLook |-> "none", gLook |-> "none", sExpect |-> None, gExpect |-> None,
     gPeer |-> FALSE, catalog |-> None]

InitService(ttl, quota) ==
    /\ CACHE_TTL = ttl
    /\ MAX_REQUESTS_PER_USER = quota
    /\ today = 0
    /\ now = 0
    /\ _request_counts = EmptyDict
    /\ _search_cache = EmptyDict
    /\ _gemini_cache = EmptyDict
    /\ searchWritten = EmptyDict
    /\ geminiWritten = EmptyDict
    /\ admitted = [c \in Clients |-> [d \in 0..MaxDay |-> 0]]
    /\ req = [r \in Req |-> IdleReq]

InitWith(ttl, quota) ==
    /\ InitService(ttl, quota)
    /\ vsearch = None

Init == InitWith(TTL, Quota)

config == <<CACHE_TTL, MAX_REQUESTS_PER_USER>>
clocks == <<today, now>>
caches == <<_search_cache, _gemini_cache, searchWritten, geminiWritten>>
quota == <<_request_counts, admitted>>

(***************************************************************************)
(* The environment: the calendar date and the clock advance.               *)
(***************************************************************************)
NextDay ==
    /\ today < MaxDay
    /\ today' = today + 1
    /\ UNCHANGED <<config, vsearch, now, quota, caches, req>>

Tick ==
    /\ now < MaxTime
    /\ now' = now + 1
    /\ UNCHANGED <<config, vsearch, today, quota, caches, req>>

(***************************************************************************)
(* POST /substitute: get_substitutes up to the return of the               *)
(* StreamingResponse.  The handler is a coroutine with no await in it, so  *)
(* the event loop runs it as one step.                                     *)
(***************************************************************************)
\* faulty variant of QuotaCount: the stored date is not compared with today
QuotaCountNoReset(counts, client_ip, day) ==
    IF client_ip \in DOMAIN counts THEN counts[client_ip].count ELSE 0

\* count = (entry[1] if entry and entry[0] == today else 0)
QuotaCount(counts, client_ip, day) ==
    IF client_ip \in DOMAIN counts /\ counts[client_ip].date = day
    THEN counts[client_ip].count
    ELSE 0

\* if count >= MAX_REQUESTS_PER_USER: raise HTTPException(429)
QuotaExceeded(count) == count >= MAX_REQUESTS_PER_USER

\* faulty variant of GetSubstitutes: a rejected request is counted as well
GetSubstitutesCountsAll(r, client_ip, source_item) ==
    /\ req[r].st = "idle"
    /\ LET count == QuotaCount(_request_counts, client_ip, today) IN
       /\ _request_counts' =
              DictSet(_request_counts, client_ip, [date |-> today, count |-> count + 1])
       /\ IF QuotaExceeded(count)
          THEN /\ req' = [req EXCEPT ![r] =
                            [@ EXCEPT !.st = "rejected", !.client = client_ip,
                                      !.item = source_item]]
               /\ UNCHANGED admitted
          ELSE /\ admitted' = [admitted EXCEPT ![client_ip][today] = @ + 1]
               /\ req' = [req EXCEPT ![r] =
                            [@ EXCEPT !.st = "admitted", !.client = client_ip,
                                      !.item = source_item,
                                      !.requests_remaining =
                                          MAX_REQUESTS_PER_USER - (count + 1),
                                      !.pc = "start"]]
    /\ UNCHANGED <<config, vsearch, clocks, caches>>

\* faulty variant of GetSubstitutes: the count is read before the handlers of
\* the client's requests still in flight have stored theirs
GetSubstitutesLostUpdate(r, client_ip, source_item) ==
    /\ req[r].st = "idle"
    /\ LET stored == IF client_ip \in DOMAIN _request_counts /\ _request_counts[client_ip].date = today
                     THEN _request_counts[client_ip].count
                     ELSE 0
           inflight == Cardinality({q \in Req : req[q].st = "admitted" /\ req[q].client = client_ip})
           count == IF stored > inflight THEN stored - inflight ELSE 0
       IN
       IF count >= MAX_REQUESTS_PER_USER
       THEN /\ req' = [req EXCEPT ![r] =
                         [@ EXCEPT !.st = "rejected", !.client = client_ip,
                                   !.item = source_item]]
            /\ UNCHANGED <<_request_counts, admitted>>
       ELSE /\ _request_counts' =
                  DictSet(_request_counts, client_ip,
                          [date |-> today, count |-> count + 1])
            /\ admitted' = [admitted EXCEPT ![client_ip][today] = @ + 1]
            /\ req' = [req EXCEPT ![r] =
                         [@ EXCEPT !.st = "admitted", !.client = client_ip,
                                   !.item = source_item,
                                   !.requests_remaining =
                                       MAX_REQUESTS_PER_USER - (count + 1),
                                   !.pc = "start"]]
    /\ UNCHANGED <<config, vsearch, clocks, caches>>

GetSubstitutes(r, client_ip, source_item) ==
    /\ req[r].st = "idle"
    /\ LET count == QuotaCount(_request_counts, client_ip, today) IN
       IF QuotaExceeded(count)
       THEN /\ req' = [req EXCEPT ![r] =
                         [@ EXCEPT !.st = "rejected", !.client = client_ip,
                                   !.item = source_item]]
            /\ UNCHANGED <<_request_counts, admitted>>
       ELSE /\ _request_counts' =
                  DictSet(_request_counts, client_ip,
                          [date |-> today, count |-> count + 1])
            /\ admitted' = [admitted EXCEPT ![client_ip][today] = @ + 1]
            /\ req' = [req EXCEPT ![r] =
                         [@ EXCEPT !.st = "admitted", !.client = client_ip,
                                   !.item = source_item,
                                   !.requests_remaining =
                                       MAX_REQUESTS_PER_USER - (count + 1),
                                   !.pc = "start"]]
    /\ UNCHANGED <<config, vsearch, clocks, caches>>

(***************************************************************************)
(* run_pipeline, on an executor thread: it iterates find_substitutes and   *)
(* hands every event to the loop with call_soon_threadsafe.                *)
(***************************************************************************)
\* faulty variant of PutNowait: the item is put at the head of the queue
PutNowaitFront(queue, x) == <<x>> \o queue

\* loop.call_soon_threadsafe(cb): the loop's ready queue is first in, first out
CallSoonThreadsafe(ready, x) == Append(ready, x)

\* queue.put_nowait(x) on the unbounded asyncio.Queue
PutNowait(queue, x) == Append(queue, x)

\* for event in find_substitutes(...): loop.call_soon_threadsafe(queue.put_nowait, event)
Push(q, event) ==
    [q EXCEPT !.ready = CallSoonThreadsafe(@, event),
              !.produced = Append(@, event)]

Called(q, what) == [q EXCEPT !.calls[what] = @ + 1]

At(r, pc) == req[r].st = "admitted" /\ req[r].pc = pc

\* faulty variant of InvalidCategories: only the supercategory is tested
InvalidSupercategory(source_item) == source_item.supercategory = ""

\* if not supercategory or not category
InvalidCategories(source_item) ==
    source_item.supercategory = "" \/ source_item.category = ""

\* history: a completed _cache_set(store, key, value) by the request of source_item
Written(written, key, value, source_item) ==
    IF CACHE_TTL > 0
    THEN DictSet(written, key, [ts |-> now, payload |-> value, by |-> source_item])
    ELSE written

\* history: the payload of the last completed _cache_set of key, if within TTL now
Expected(written, key) ==
    IF CACHE_TTL > 0 /\ key \in DOMAIN written /\ (now - written[key].ts) < CACHE_TTL
    THEN Some(written[key].payload)
    ELSE None

\* the two source items agree on every field but unit_price and total_price
SameButPrice(a, b) ==
    \A f \in DOMAIN a \ {"unit_price", "total_price"} : a[f] = b[f]

\* history: a ranking answer for an item that differs from source_item in price
\* alone at most was written, by a completed _cache_set, within TTL of now
PeerWritten(source_item) ==
    /\ CACHE_TTL > 0
    /\ \E k \in DOMAIN geminiWritten :
          /\ SameButPrice(geminiWritten[k].by, source_item)
          /\ (now - geminiWritten[k].ts) < CACHE_TTL

\* faulty variant of Validate: the categories are not validated
ValidateNothing(r) ==
    /\ At(r, "start")
    /\ req' = [req EXCEPT ![r] =
                 [Push(@, StatusEvent("Searching catalog...")) EXCEPT !.pc = "s_get"]]
    /\ UNCHANGED <<config, vsearch, clocks, quota, caches>>

Validate(r) ==
    /\ At(r, "start")
    /\ req' = [req EXCEPT ![r] =
                 IF InvalidCategories(@.item)
                 THEN [Push(@, ErrorEvent("Both supercategory and category are required."))
                          EXCEPT !.pc = "finally"]
                 ELSE [Push(@, StatusEvent("Searching catalog..."))
                          EXCEPT !.pc = "s_get"]]
    /\ UNCHANGED <<config, vsearch, clocks, quota, caches>>

\* candidates = _cache_get(_search_cache, s_key): lookup and freshness test
SearchCacheGet(r) ==
    /\ At(r, "s_get")
    /\ LET key == SearchKeyOf(req[r].item)
           q == [Called(req[r], "cache") EXCEPT
                    !.sExpect = Expected(searchWritten, key)]
       IN  req' = [req EXCEPT ![r] =
               IF ~ CacheEnabled
               THEN [q EXCEPT !.sLook = "miss", !.pc = "search"]
               ELSE IF CacheFresh(_search_cache, key)
               THEN [q EXCEPT !.sLook = "hit", !.pc = "s_chk",
                              !.candidates = _search_cache[key].payload]
               ELSE [q EXCEPT !.sLook = "miss", !.pc = "s_pop"]]
    /\ UNCHANGED <<config, vsearch, clocks, quota, caches>>

\* _cache_get: store.pop(key, None); return None
SearchCachePop(r) ==
    /\ At(r, "s_pop")
    /\ _search_cache' = DictPop(_search_cache, SearchKeyOf(req[r].item))
    /\ req' = [req EXCEPT ![r].pc = "search"]
    /\ UNCHANGED <<config, vsearch, clocks, quota, _gemini_cache,
                   searchWritten, geminiWritten>>

\* candidates = search_similar_products(...): returns a list or raises
SearchCall(r, lists) ==
    /\ At(r, "search")
    /\ \/ \E c \in lists :
             req' = [req EXCEPT ![r] =
                       [Called(@, "search") EXCEPT !.candidates = c, !.pc = "s_set"]]
       \/ req' = [req EXCEPT ![r] =
                    [Called(@, "search") EXCEPT !.exc = "search failed", !.pc = "except"]]
    /\ UNCHANGED <<config, vsearch, clocks, quota, caches>>

\* _cache_set(_search_cache, s_key, candidates)
SearchCacheSet(r) ==
    /\ At(r, "s_set")
    /\ LET key == SearchKeyOf(req[r].item) IN
       /\ _search_cache' = CacheSetStore(_search_cache, key, req[r].candidates)
       /\ searchWritten' = Written(searchWritten, key, req[r].candidates, req[r].item)
    /\ req' = [req EXCEPT ![r] = [Called(@, "cache") EXCEPT !.pc = "s_chk"]]
    /\ UNCHANGED <<config, vsearch, clocks, quota, _gemini_cache, geminiWritten>>

\* faulty variant of CandidatesCheck: an empty list goes on to the ranking stage
CandidatesCheckAlwaysRanks(r) ==
    /\ At(r, "s_chk")
    /\ req' = [req EXCEPT ![r] =
                 [Push(@, StatusEvent("Found " \o ToString(Len(@.candidates))
                                      \o " candidates - AI is ranking..."))
                     EXCEPT !.pc = "g_get"]]
    /\ UNCHANGED <<config, vsearch, clocks, quota, caches>>

\* if not candidates: yield the empty result and return; else yield "Found n ..."
CandidatesCheck(r) ==
    /\ At(r, "s_chk")
    /\ req' = [req EXCEPT ![r] =
                 IF @.candidates = <<>>
                 THEN [Push(@, EmptyResult(@.item)) EXCEPT !.pc = "finally"]
                 ELSE [Push(@, StatusEvent("Found " \o ToString(Len(@.candidates))
                                           \o " candidates - AI is ranking..."))
                          EXCEPT !.pc = "g_get"]]
    /\ UNCHANGED <<config, vsearch, clocks, quota, caches>>

\* gemini_result = _cache_get(_gemini_cache, g_key): lookup and freshness test
GeminiCacheGet(r) ==
    /\ At(r, "g_get")
    /\ LET key == _gemini_key(req[r].item)
           q == [Called(req[r], "cache") EXCEPT
                    !.gExpect = Expected(geminiWritten, key),
                    !.gPeer = PeerWritten(req[r].item)]
       IN  req' = [req EXCEPT ![r] =
               IF ~ CacheEnabled
               THEN [q EXCEPT !.gLook = "miss", !.pc = "rank"]
               ELSE IF CacheFresh(_gemini_cache, key)
               THEN [q EXCEPT !.gLook = "hit", !.pc = "g_done",
                              !.gemini_result = _gemini_cache[key].payload]
               ELSE [q EXCEPT !.gLook = "miss", !.pc = "g_pop"]]
    /\ UNCHANGED <<config, vsearch, clocks, quota, caches>>

\* _cache_get: store.pop(key, None); return None
GeminiCachePop(r) ==
    /\ At(r, "g_pop")
    /\ _gemini_cache' = DictPop(_gemini_cache, _gemini_key(req[r].item))
    /\ req' = [req EXCEPT ![r].pc = "rank"]
    /\ UNCHANGED <<config, vsearch, clocks, quota, _search_cache,
                   searchWritten, geminiWritten>>

\* faulty variant of RankCall: a failed call is made again
RankCallRetry(r, answers) ==
    /\ At(r, "rank")
    /\ \/ \E g \in answers :
             req' = [req EXCEPT ![r] =
                       [Called(@, "rank") EXCEPT !.gemini_result = g, !.pc = "g_set"]]
       \/ /\ req[r].calls.rank < 2
          /\ req' = [req EXCEPT ![r] = Called(@, "rank")]
    /\ UNCHANGED <<config, vsearch, clocks, quota, caches>>

\* gemini_result = rank_substitutes(...): returns the parsed answer or raises
RankCall(r, answers) ==
    /\ At(r, "rank")
    /\ \/ \E g \in answers :
             req' = [req EXCEPT ![r] =
                       [Called(@, "rank") EXCEPT !.gemini_result = g, !.pc = "g_set"]]
       \/ req' = [req EXCEPT ![r] =
                    [Called(@, "rank") EXCEPT !.exc = "ranking failed", !.pc = "except"]]
    /\ UNCHANGED <<config, vsearch, clocks, quota, caches>>

\* _cache_set(_gemini_cache, g_key, gemini_result)
GeminiCacheSet(r) ==
    /\ At(r, "g_set")
    /\ LET key == _gemini_key(req[r].item) IN
       /\ _gemini_cache' = CacheSetStore(_gemini_cache, key, req[r].gemini_result)
       /\ geminiWritten' = Written(geminiWritten, key, req[r].gemini_result, req[r].item)
    /\ req' = [req EXCEPT ![r] = [Called(@, "cache") EXCEPT !.pc = "g_done"]]
    /\ UNCHANGED <<config, vsearch, clocks, quota, _search_cache, searchWritten>>

\* yield "Ranking complete, fetching product details..."
\* faulty variant of RankingDone: no status event after the ranking stage
RankingDoneSilent(r) ==
    /\ At(r, "g_done")
    /\ req' = [req EXCEPT ![r].pc = "enrich"]
    /\ UNCHANGED <<config, vsearch, clocks, quota, caches>>

RankingDone(r) ==
    /\ At(r, "g_done")
    /\ req' = [req EXCEPT ![r] =
                 [Push(@, StatusEvent("Ranking complete, fetching product details..."))
                     EXCEPT !.pc = "enrich"]]
    /\ UNCHANGED <<config, vsearch, clocks, quota, caches>>

\* steps 4 and 5: the SKU list, the batch fetches, the pricing loop, the result
Enrichment(r, catalogs) ==
    /\ At(r, "enrich")
    /\ LET q == req[r]
           subs == SubsOf(q.gemini_result)
       IN  IF \E i \in DOMAIN subs : "sku" \notin DOMAIN subs[i]
           THEN req' = [req EXCEPT ![r] =
                          [@ EXCEPT !.exc = "KeyError", !.pc = "except"]]
           ELSE \/ \E catalog \in catalogs :
                     req' = [req EXCEPT ![r] =
                        IF EnrichRaises(q.gemini_result, catalog)
                        THEN [Called(@, "fetch") EXCEPT
                                 !.catalog = Some(catalog),
                                 !.exc = "KeyError", !.pc = "except"]
                        ELSE [Push(Called(@, "fetch"),
                                   FinalResult(q.item, q.candidates,
                                               q.gemini_result, catalog))
                                 EXCEPT !.catalog = Some(catalog), !.pc = "finally"]]
                \/ req' = [req EXCEPT ![r] =
                             [Called(@, "fetch") EXCEPT
                                 !.exc = "catalog failed", !.pc = "except"]]
    /\ UNCHANGED <<config, vsearch, clocks, quota, caches>>

\* faulty variant of Except: the exception is swallowed, no error event is pushed
ExceptSilent(r) ==
    /\ At(r, "except")
    /\ req' = [req EXCEPT ![r].pc = "finally"]
    /\ UNCHANGED <<config, vsearch, clocks, quota, caches>>

\* except Exception as e: push {"type": "error", "message": str(e)}
Except(r) ==
    /\ At(r, "except")
    /\ req' = [req EXCEPT ![r] = [Push(@, ErrorEvent(@.exc)) EXCEPT !.pc = "finally"]]
    /\ UNCHANGED <<config, vsearch, clocks, quota, caches>>

\* faulty variant of Finally: run_pipeline returns without the sentinel
FinallyNoSentinel(r) ==
    /\ At(r, "finally")
    /\ req' = [req EXCEPT ![r].pc = "done"]
    /\ UNCHANGED <<config, vsearch, clocks, quota, caches>>

\* finally: loop.call_soon_threadsafe(queue.put_nowait, None)
Finally(r) ==
    /\ At(r, "finally")
    /\ req' = [req EXCEPT ![r] =
                 [@ EXCEPT !.ready = CallSoonThreadsafe(@, Sentinel), !.pc = "done"]]
    /\ UNCHANGED <<config, vsearch, clocks, quota, caches>>

(***************************************************************************)
(* The event loop: it runs the scheduled callbacks in order, and           *)
(* event_stream takes one queue item per iteration.                        *)
(***************************************************************************)
LoopCallback(r) ==
    /\ req[r].st = "admitted"
    /\ req[r].ready # <<>>
    /\ req' = [req EXCEPT ![r] =
                 [@ EXCEPT !.queue = PutNowait(@, Head(req[r].ready)),
                           !.ready = Tail(@)]]
    /\ UNCHANGED <<config, vsearch, clocks, quota, caches>>

\* event = await queue.get(); break on None; add requests_remaining; yield
Forwarded(event, requests_remaining) ==
    IF event.type = "result"
    THEN [event EXCEPT !.data = ("requests_remaining" :> requests_remaining) @@ @]
    ELSE event

EventStream(r) ==
    /\ req[r].st = "admitted"
    /\ ~ req[r].closed
    /\ req[r].queue # <<>>
    /\ LET event == Head(req[r].queue) IN
       req' = [req EXCEPT ![r] =
                 IF event = Sentinel
                 THEN [@ EXCEPT !.queue = Tail(@), !.closed = TRUE]
                 ELSE [@ EXCEPT !.queue = Tail(@),
                                !.delivered =
                                    Append(@, Forwarded(event, req[r].requests_remaining))]]
    /\ UNCHANGED <<config, vsearch, clocks, quota, caches>>

(***************************************************************************)
(* Specifications.                                                         *)
(***************************************************************************)
\* find_substitutes up to the end of its cached stages
Stages(r, lists, answers) ==
    \/ Validate(r)
    \/ SearchCacheGet(r) \/ SearchCachePop(r) \/ SearchCall(r, lists) \/ SearchCacheSet(r)
    \/ CandidatesCheck(r)
    \/ GeminiCacheGet(r) \/ GeminiCachePop(r) \/ RankCall(r, answers) \/ GeminiCacheSet(r)
    \/ RankingDone(r)

Pipeline(r) ==
    \/ Stages(r, CandidateLists, RankResponses)
    \/ Enrichment(r, Catalogs)
    \/ Except(r)
    \/ Finally(r)

\* the request has been answered in full: HTTP 429, or the stream is closed
Finished(r) == req[r].st = "rejected" \/ (req[r].st = "admitted" /\ req[r].closed)

\* the client of request slot r in the specifications that fix it
ClientOf(r) == ((r - 1) % NumClients) + 1

ValidItems == {it \in SourceItems : ~ InvalidCategories(it)}

(***************************************************************************)
(* Spec: requests through the whole service (quota, pipeline, queue        *)
(* bridge, stream), one request after the other.  The quota is 1 so that   *)
(* admitted and rejected requests are both within MaxReq requests.         *)
(***************************************************************************)
InitStream == InitWith(TTL, 1)

Next ==
    \/ \E r \in Req, c \in Clients, it \in SourceItems :
          /\ \A q \in 1..(r - 1) : Finished(q)
          /\ GetSubstitutes(r, c, it)
    \/ \E r \in Req : Pipeline(r)
    \/ \E r \in Req : LoopCallback(r)
    \/ \E r \in Req : EventStream(r)

Spec == InitStream /\ [][Next]_vars

(***************************************************************************)
(* SpecLive: Spec with the scheduling the runtime provides.  The executor  *)
(* thread of an admitted request keeps running (every external call        *)
(* returns or raises), the event loop runs every callback scheduled with   *)
(* call_soon_threadsafe, and it resumes event_stream whenever the queue    *)
(* holds an item.                                                          *)
(***************************************************************************)
Fairness ==
    \A r \in Req :
        /\ WF_vars(Pipeline(r))
        /\ WF_vars(LoopCallback(r))
        /\ WF_vars(EventStream(r))

SpecLive == InitStream /\ [][Next]_vars /\ Fairness

(***************************************************************************)
(* SpecCache: the cached stages (retrieval, ranking) of the pipelines of   *)
(* the requests in flight, running concurrently on executor threads while  *)
(* the clock advances.  What a pipeline does after its cached stages       *)
(* (enrichment, the except and finally clauses) and the event loop's side  *)
(* of the bridge touch neither cache and nothing another request reads, so *)
(* they are left out: a request slot is reused (Retire) once its thread is *)
(* past the cached stages.  A behaviour holds as many requests as the      *)
(* quota admits.                                                           *)
(***************************************************************************)
PastCaches(r) ==
    \/ req[r].st = "rejected"
    \/ req[r].st = "admitted" /\ req[r].pc \in {"enrich", "except", "finally", "done"}

Retire(r) ==
    /\ PastCaches(r)
    /\ req' = [req EXCEPT ![r] = IdleReq]
    /\ UNCHANGED <<config, vsearch, clocks, quota, caches>>

NextCache ==
    \/ Tick
    \/ \E r \in Req, it \in ValidItems : GetSubstitutes(r, ClientOf(r), it)
    \/ \E r \in Req : Stages(r, CacheLists, CacheAnswers)
    \/ \E r \in Req : Retire(r)

SpecCache == Init /\ [][NextCache]_vars

(***************************************************************************)
(* SpecNoCache: SpecCache with CACHE_TTL = 0.  _cache_get returns before   *)
(* its lookup, so the two pop steps are never taken.                       *)
(***************************************************************************)
InitNoCache == InitWith(0, Quota)

StagesNoCache(r) ==
    \/ Validate(r)
    \/ SearchCacheGet(r) \/ SearchCall(r, CacheLists) \/ SearchCacheSet(r)
    \/ CandidatesCheck(r)
    \/ GeminiCacheGet(r) \/ RankCall(r, CacheAnswers) \/ GeminiCacheSet(r)
    \/ RankingDone(r)

NextNoCache ==
    \/ Tick
    \/ \E r \in Req, it \in ValidItems : GetSubstitutes(r, ClientOf(r), it)
    \/ \E r \in Req : StagesNoCache(r)
    \/ \E r \in Req : Retire(r)

SpecNoCache == InitNoCache /\ [][NextNoCache]_vars

(***************************************************************************)
(* SpecEnrich: one request through the whole of find_substitutes, with     *)
(* source items over the cases of the pricing derivation (no price, total  *)
(* price, unit price, negative and sub-cent amounts, quantity 0), ranking  *)
(* answers of up to six items and catalogs that hold all, one or none of   *)
(* the ranked SKUs.                                                        *)
(***************************************************************************)
PricedItem(q, up, tp) == [Item("Hardware", "Fasteners", up, tp) EXCEPT !.quantity = q]

PricedItems == { PricedItem(q, up, tp) : q \in {0, 3}, up \in {-1000, 0, 375},
                                        tp \in {-1000, 0, 1125, 2000} }

\* config.TOP_K_FINAL: the number of substitutes the ranking prompt asks for
TOP_K_FINAL == 5

EnrichLists == { <<"p1", "p2", "p3", "p4", "p5", "p6">> }

RankSix ==
    [substitutes |-> <<Sub("p1", 1, 1), Sub("p2", 2, 2), Sub("p3", 3, 1),
                       Sub("p4", 4, 1), Sub("p5", 5, 1), Sub("p6", 6, 1)>>]
RankBackwards == [substitutes |-> <<Sub("p2", 1, 2), Sub("p1", 2, 1), Sub("p2", 3, 1)>>]

EnrichAnswers == { RankGood, RankBackwards, RankSix }

\* p2 has no customer_price: its web_price is used
FullCatalog ==
    ("p1" :> Product("p1", 250)) @@ ("p2" :> Product("p2", 0)) @@
    ("p3" :> Product("p3", 2000)) @@ ("p4" :> Product("p4", 2000)) @@
    ("p5" :> Product("p5", 2000)) @@ ("p6" :> Product("p6", 2000))

EnrichCatalogs == { FullCatalog, ("p2" :> Product("p2", 0)), EmptyDict }

NextEnrich ==
    \/ \E it \in PricedItems : GetSubstitutes(1, ClientOf(1), it)
    \/ Stages(1, EnrichLists, EnrichAnswers)
    \/ Enrichment(1, EnrichCatalogs)
    \/ Except(1)
    \/ Finally(1)

SpecEnrich == Init /\ [][NextEnrich]_vars

(***************************************************************************)
(* SpecExpiry: whole pipelines, one after the other, while the clock       *)
(* advances and the product index changes between searches.  The ranking   *)
(* collaborator behaves: it ranks candidates it was given and names no     *)
(* other SKU, and its items carry every field.                             *)
(***************************************************************************)
ExpiryLists == { <<"p1">>, <<"p2">>, <<"p2", "p1">> }

\* rank_substitutes(source_item, candidates): one of the candidates, ranked first
RankedFrom(candidates) ==
    { [substitutes |-> <<Sub(candidates[i], 1, 1)>>] : i \in DOMAIN candidates }

\* run_pipeline has returned, or the request was rejected
PipelineOver(r) ==
    \/ req[r].st = "rejected"
    \/ req[r].st = "admitted" /\ req[r].pc = "done"

\* the slot of a request whose pipeline is over is free for the next request
Release(r) ==
    /\ PipelineOver(r)
    /\ req' = [req EXCEPT ![r] = IdleReq]
    /\ UNCHANGED <<config, vsearch, clocks, quota, caches>>

\* the cached stages with the ranking of the request's own candidates
StagesExpiry(r) ==
    \/ Validate(r)
    \/ SearchCacheGet(r) \/ SearchCachePop(r) \/ SearchCall(r, ExpiryLists) \/ SearchCacheSet(r)
    \/ CandidatesCheck(r)
    \/ GeminiCacheGet(r) \/ GeminiCachePop(r)
    \/ RankCall(r, RankedFrom(req[r].candidates))
    \/ GeminiCacheSet(r)
    \/ RankingDone(r)

NextExpiry ==
    \/ Tick
    \/ \E r \in Req, it \in ValidItems :
          /\ \A q \in Req \ {r} : req[q].st = "idle" \/ PipelineOver(q)
          /\ GetSubstitutes(r, ClientOf(r), it)
    \/ \E r \in Req : StagesExpiry(r)
    \/ \E r \in Req : Enrichment(r, Catalogs)
    \/ \E r \in Req : Except(r)
    \/ \E r \in Req : Finally(r)
    \/ \E r \in Req : Release(r)

SpecExpiry == Init /\ [][NextExpiry]_vars

(***************************************************************************)
(* vector_store.search_similar_products as a function of the collection's  *)
(* hits for the query (best first, each hit named by its SKU), the         *)
(* excluded SKU and n_results.                                             *)
(***************************************************************************)
Minimum(a, b) == IF a <= b THEN a ELSE b

\* seq[:n]
Take(seq, n) == SubSeq(seq, 1, Minimum(n, Len(seq)))

\* client.query(..., limit=limit): the best limit hits, in relevance order
QdrantQuery(hits, limit) == Take(hits, limit)

\* faulty variant of search_similar_products: only n_results hits are requested
search_without_spare(hits, exclude_sku, n_results) ==
    LET results == QdrantQuery(hits, n_results)
        Kept(sku) == ~ (exclude_sku # "" /\ sku = exclude_sku)
    IN  Take(SelectSeq(results, Kept), n_results)

search_similar_products(hits, exclude_sku, n_results) ==
    LET results == QdrantQuery(hits, n_results + 1)
        Kept(sku) == ~ (exclude_sku # "" /\ sku = exclude_sku)
        candidates == SelectSeq(results, Kept)
    IN  Take(candidates, n_results)

(***************************************************************************)
(* SpecSearch: search_similar_products called on its own, with every list  *)
(* of up to MaxHits distinct hits, an excluded SKU that is empty, among    *)
(* the hits or not, and an n_results below, at and above the number of     *)
(* hits.                                                                   *)
(***************************************************************************)
Skus == {"p1", "p2", "p3", "p4"}

HitLists ==
    UNION { { h \in [1..n -> Skus] : \A i, j \in 1..n : i # j => h[i] # h[j] } :
            n \in 0..MaxHits }

ExcludeSkus == {"", "p1", "p2", "zz"}

\* one call is pending: its arguments, and None for what it will return
InitSearch ==
    /\ InitService(TTL, Quota)
    /\ \E hits \in HitLists, exclude_sku \in ExcludeSkus, n_results \in 1..MaxResults :
          vsearch = Some([hits |-> hits, exclude_sku |-> exclude_sku,
                          n_results |-> n_results, returned |-> None])

VectorSearch ==
    /\ vsearch # None
    /\ vsearch[1].returned = None
    /\ vsearch' = Some([vsearch[1] EXCEPT !.returned =
                           Some(search_similar_products(vsearch[1].hits,
                                                        vsearch[1].exclude_sku,
                                                        vsearch[1].n_results))])
    /\ UNCHANGED <<config, clocks, quota, caches, req>>

NextSearch == VectorSearch

SpecSearch == InitSearch /\ [][NextSearch]_vars

(***************************************************************************)
(* SpecQuota: the quota guard alone.  Requests of every client arrive on   *)
(* successive dates; what follows the handler does not touch               *)
(* _request_counts, so a request slot is reused right after the handler.   *)
(***************************************************************************)
Answered(r) ==
    /\ req[r].st # "idle"
    /\ req' = [req EXCEPT ![r] = IdleReq]
    /\ UNCHANGED <<config, vsearch, clocks, quota, caches>>

NextQuota ==
    \/ NextDay
    \/ \E r \in Req, c \in Clients, it \in SourceItems : GetSubstitutes(r, c, it)
    \/ \E r \in Req : Answered(r)

SpecQuota == Init /\ [][NextQuota]_vars

(***************************************************************************)
(*                              The claims                                 *)
(***************************************************************************)

(***************************************************************************)
(* C1.  Quota law of POST /substitute.  For one client and one date, once  *)
(* MAX_REQUESTS_PER_USER requests have been admitted every further request *)
(* on that date is rejected (so no more than that many are ever admitted); *)
(* and a request that arrives when the client's stored date differs from   *)
(* the current date is admitted whatever the stored count, and the stored  *)
(* record restarts at (today, 1).                                          *)
(***************************************************************************)
C1_QuotaLaw ==
    /\ [](\A c \in Clients, d \in 0..MaxDay : admitted[c][d] <= MAX_REQUESTS_PER_USER)
    /\ [][\A r \in Req :
            (req[r].st = "idle" /\ req'[r].st # "idle") =>
               LET c == req'[r].client IN
               /\ admitted[c][today] >= MAX_REQUESTS_PER_USER
                     => (req'[r].st = "rejected" /\ admitted' = admitted)
               /\ (c \in DOMAIN _request_counts /\ _request_counts[c].date # today)
                     => /\ req'[r].st = "admitted"
                        /\ _request_counts'[c] = [date |-> today, count |-> 1]]_vars

\* a client used up one day's quota and was admitted again, count 1, on the
\* next day, while a request is rejected for a client whose quota of today is used up
C1_Witness ==
    /\ today > 0
    /\ \E c \in Clients :
          /\ admitted[c][today - 1] = MAX_REQUESTS_PER_USER
          /\ c \in DOMAIN _request_counts
          /\ _request_counts[c] = [date |-> today, count |-> 1]
    /\ \E r \in Req :
          /\ req[r].st = "rejected"
          /\ admitted[req[r].client][today] = MAX_REQUESTS_PER_USER

(***************************************************************************)
(* Shared vocabulary of the stream claims.                                 *)
(***************************************************************************)
Admitted(r) == req[r].st = "admitted"

\* the request's supercategory or category is empty
EmptyCategory(r) == req[r].item.supercategory = "" \/ req[r].item.category = ""

ValidationError == ErrorEvent("Both supercategory and category are required.")

\* everything the caller has received or that is on its way to the caller
Stream(r) == req[r].delivered \o req[r].queue \o req[r].ready

NotSentinel(e) == e # Sentinel

\* event e as the caller receives it: a result gains requests_remaining and
\* nothing else of it changes
SameEvent(sent, got) ==
    /\ got.type = sent.type
    /\ IF sent.type = "result"
       THEN /\ DOMAIN got.data = DOMAIN sent.data \cup {"requests_remaining"}
            /\ \A k \in DOMAIN sent.data : got.data[k] = sent.data[k]
       ELSE got = sent

(***************************************************************************)
(* C2.  Every admitted request's stream has exactly one terminal event     *)
(* (result or error): nothing but the sentinel ever follows a terminal     *)
(* event, the sentinel is pushed only right after a terminal event, and a  *)
(* closed stream has delivered exactly one terminal event, as its last     *)
(* event, with nothing left behind it.                                     *)
(***************************************************************************)
C2_OneTerminalEvent ==
    \A r \in Req : Admitted(r) =>
        LET s == Stream(r)
            n == Len(s)
            d == req[r].delivered
        IN  /\ \A i \in 1..n : s[i] = Sentinel =>
                  (i = n /\ n >= 2 /\ IsTerminal(s[n - 1]))
            /\ \A i \in 1..n : IsTerminal(s[i]) =>
                  (i = n \/ (i = n - 1 /\ s[n] = Sentinel))
            /\ (req[r].pc = "done" /\ ~ req[r].closed) => (n >= 1 /\ s[n] = Sentinel)
            /\ req[r].closed =>
                  /\ Len(d) >= 1
                  /\ IsTerminal(d[Len(d)])
                  /\ \A i \in 1..(Len(d) - 1) : ~ IsTerminal(d[i])
                  /\ req[r].queue = <<>> /\ req[r].ready = <<>>

\* one closed stream ended by a result, another closed by the error event of
\* an exception raised by the ranking call
C2_Witness ==
    \E r1, r2 \in Req :
        /\ Admitted(r1) /\ req[r1].closed
        /\ req[r1].delivered[Len(req[r1].delivered)].type = "result"
        /\ Admitted(r2) /\ req[r2].closed
        /\ req[r2].delivered[Len(req[r2].delivered)] = ErrorEvent("ranking failed")

(***************************************************************************)
(* C3.  The queue bridge forwards the events in the order run_pipeline     *)
(* pushed them: what the caller has received, followed by what is in the   *)
(* queue and in the loop's callbacks, is the pushed sequence, event for    *)
(* event; once the stream is closed every pushed event has been delivered. *)
(***************************************************************************)
C3_OrderPreserved ==
    \A r \in Req : Admitted(r) =>
        LET d == req[r].delivered
            p == SelectSeq(req[r].queue \o req[r].ready, NotSentinel)
            sent == req[r].produced
        IN  /\ Len(d) + Len(p) = Len(sent)
            /\ \A i \in 1..Len(d) : SameEvent(sent[i], d[i])
            /\ \A j \in 1..Len(p) : p[j] = sent[Len(d) + j]
            /\ req[r].closed => Len(d) = Len(sent)

\* producer and consumer interleaved: one event delivered, one in the queue,
\* one still a scheduled callback, and the thread still running
C3_Witness ==
    \E r \in Req :
        /\ Admitted(r)
        /\ req[r].pc \notin {"finally", "done"}
        /\ Len(req[r].delivered) >= 1
        /\ Len(req[r].queue) >= 1
        /\ Len(req[r].ready) >= 1

(***************************************************************************)
(* C4.  A request whose supercategory or category is empty is rejected by  *)
(* find_substitutes before any work: no search_similar_products call, no   *)
(* rank_substitutes call, no catalog fetch, no _cache_get or _cache_set on *)
(* either cache; the only event it ever pushes is the validation error.    *)
(***************************************************************************)
C4_RejectBeforeWork ==
    \A r \in Req : (Admitted(r) /\ EmptyCategory(r)) =>
        /\ req[r].calls = NoCalls
        /\ req[r].sLook = "none" /\ req[r].gLook = "none"
        /\ req[r].pc \in {"start", "finally", "done"}
        /\ req[r].produced \in {<<>>, <<ValidationError>>}

\* a request with an empty category has run to its end while the caches hold
\* nothing
C4_Witness ==
    \E r \in Req :
        /\ Admitted(r) /\ req[r].item.category = ""
        /\ req[r].pc = "done"
        /\ req[r].produced = <<ValidationError>>
        /\ _search_cache = EmptyDict /\ _gemini_cache = EmptyDict

(***************************************************************************)
(* C5.  As claimed: validation failures (empty supercategory or category)  *)
(* and quota failures never enter the streaming phase: no stream is        *)
(* started and no event is delivered.                                      *)
(***************************************************************************)
C5_NeverStreams ==
    \A r \in Req :
        (req[r].st = "rejected" \/ (Admitted(r) /\ EmptyCategory(r))) =>
            /\ req[r].pc = "none"
            /\ req[r].produced = <<>>
            /\ req[r].delivered = <<>>

(***************************************************************************)
(* C5, amended.  A quota failure never enters the streaming phase: no      *)
(* pipeline thread, no event, no call.  A request with an empty            *)
(* supercategory or category is admitted and streamed: its stream carries  *)
(* exactly one event, the validation error, and it makes no cache or       *)
(* collaborator call.                                                      *)
(***************************************************************************)
C5_QuotaNeverStreams ==
    \A r \in Req :
        /\ req[r].st = "rejected" =>
              /\ req[r].pc = "none"
              /\ req[r].produced = <<>> /\ req[r].ready = <<>>
              /\ req[r].queue = <<>> /\ req[r].delivered = <<>>
              /\ ~ req[r].closed
              /\ req[r].calls = NoCalls
        /\ (Admitted(r) /\ EmptyCategory(r)) =>
              /\ req[r].calls = NoCalls
              /\ req[r].produced \in {<<>>, <<ValidationError>>}
              /\ req[r].delivered \in {<<>>, <<ValidationError>>}
              /\ req[r].closed => req[r].delivered = <<ValidationError>>

\* one request answered 429 and one request with an empty supercategory whose
\* stream was closed after the validation error
C5_Witness ==
    \E r1, r2 \in Req :
        /\ req[r1].st = "rejected"
        /\ Admitted(r2) /\ req[r2].item.supercategory = ""
        /\ req[r2].closed
        /\ req[r2].delivered = <<ValidationError>>

(***************************************************************************)
(* Shared vocabulary of the cache claims.                                  *)
(***************************************************************************)
\* the thread of r has the candidates of its retrieval stage in hand
PastSearch(r) ==
    req[r].pc \in {"s_set", "s_chk", "g_get", "g_pop", "rank", "g_set", "g_done", "enrich"}

\* the thread of r has the ranking answer in hand
PastRank(r) == req[r].pc \in {"g_set", "g_done", "enrich"}

(***************************************************************************)
(* C6.  Retrieval cache idempotence: a request whose _cache_get on the     *)
(* retrieval cache starts within TTL of a completed _cache_set of the same *)
(* key gets the written candidate list (the empty list included) and makes *)
(* no call to search_similar_products; a request whose _cache_get starts   *)
(* when no write of the key is within TTL calls search_similar_products    *)
(* once.                                                                   *)
(***************************************************************************)
C6_RetrievalIdempotent ==
    \A r \in Req : (Admitted(r) /\ req[r].sLook # "none") =>
        /\ req[r].sExpect # None =>
              /\ req[r].sLook = "hit"
              /\ req[r].candidates = req[r].sExpect[1]
              /\ req[r].calls.search = 0
        /\ req[r].sExpect = None =>
              /\ req[r].sLook = "miss"
              /\ PastSearch(r) => req[r].calls.search = 1

(***************************************************************************)
(* C7.  The ranking cache key does not depend on the price fields: two     *)
(* source items that differ in unit_price and total_price alone have the   *)
(* same key, and a request whose ranking _cache_get starts within TTL of a *)
(* completed ranking _cache_set for such an item is a ranking-cache hit    *)
(* and makes no call to rank_substitutes.                                  *)
(***************************************************************************)
C7_PriceInvariantKey ==
    /\ \A a, b \in ValidItems : SameButPrice(a, b) => _gemini_key(a) = _gemini_key(b)
    /\ \A r \in Req : (Admitted(r) /\ req[r].gPeer) =>
          /\ req[r].gLook = "hit"
          /\ req[r].calls.rank = 0

(***************************************************************************)
(* C8.  With CACHE_TTL = 0 caching is disabled: both stores are empty in   *)
(* every reachable state, no _cache_get is a hit, and every request makes  *)
(* exactly one retrieval call and, if it reaches the ranking stage,        *)
(* exactly one ranking call.                                               *)
(***************************************************************************)
C8_CachingDisabled ==
    /\ _search_cache = EmptyDict /\ _gemini_cache = EmptyDict
    /\ \A r \in Req : Admitted(r) =>
          /\ req[r].sLook # "hit" /\ req[r].gLook # "hit"
          /\ req[r].calls.search <= 1 /\ req[r].calls.rank <= 1
          /\ PastSearch(r) => req[r].calls.search = 1
          /\ PastRank(r) => req[r].calls.rank = 1

\* two requests for the same item have both passed the two cached stages,
\* each after its two _cache_get and two _cache_set
C8_Witness ==
    \E r1, r2 \in Req :
        /\ r1 # r2
        /\ Admitted(r1) /\ Admitted(r2)
        /\ req[r1].item = req[r2].item
        /\ req[r1].pc = "enrich" /\ req[r2].pc = "enrich"
        /\ req[r1].calls = [search |-> 1, rank |-> 1, fetch |-> 0, cache |-> 4]
        /\ req[r2].calls = [search |-> 1, rank |-> 1, fetch |-> 0, cache |-> 4]

(***************************************************************************)
(* C9.  Cache reads and writes on one key are linearizable: while the last *)
(* completed _cache_set(key, v) of either cache is within TTL, the store   *)
(* holds v under that key, so that a _cache_get starting now returns it.   *)
(***************************************************************************)
C9_Linearizable ==
    /\ \A k \in DOMAIN searchWritten :
          (now - searchWritten[k].ts) < CACHE_TTL =>
              /\ k \in DOMAIN _search_cache
              /\ _search_cache[k].payload = searchWritten[k].payload
    /\ \A k \in DOMAIN geminiWritten :
          (now - geminiWritten[k].ts) < CACHE_TTL =>
              /\ k \in DOMAIN _gemini_cache
              /\ _gemini_cache[k].payload = geminiWritten[k].payload

(***************************************************************************)
(* C10.  A malformed ranking answer (an item without a required field, a   *)
(* qty_needed that is not positive, a repeated or out-of-range rank) ends  *)
(* the request with an error event: no result event is pushed for it.      *)
(***************************************************************************)
C10_MalformedIsError ==
    \A r \in Req :
        (Admitted(r) /\ req[r].gemini_result # EmptyDict
                     /\ ~ WellFormed(req[r].gemini_result)) =>
            /\ \A i \in DOMAIN req[r].produced : req[r].produced[i].type # "result"
            /\ req[r].pc = "done" =>
                  req[r].produced[Len(req[r].produced)].type = "error"

(***************************************************************************)
(* C11.  A collaborator call that raises (retrieval or ranking) is         *)
(* surfaced as the stream's error event and ends the pipeline: no later    *)
(* collaborator call, no catalog fetch, no result event, and no second     *)
(* attempt; every request calls each collaborator at most once.            *)
(***************************************************************************)
C11_FailureAborts ==
    \A r \in Req : Admitted(r) =>
        /\ req[r].calls.search <= 1 /\ req[r].calls.rank <= 1
        /\ req[r].exc \in {"search failed", "ranking failed"} =>
              /\ req[r].pc \in {"except", "finally", "done"}
              /\ req[r].calls.fetch = 0
              /\ req[r].exc = "search failed" => req[r].calls.rank = 0
              /\ \A i \in DOMAIN req[r].produced : req[r].produced[i].type # "result"
              /\ req[r].pc \in {"finally", "done"} =>
                    req[r].produced[Len(req[r].produced)] = ErrorEvent(req[r].exc)

\* one request closed after a failed retrieval call, another after a failed
\* ranking call; each made the failed call once
C11_Witness ==
    \E r1, r2 \in Req :
        /\ Admitted(r1) /\ req[r1].closed
        /\ req[r1].exc = "search failed" /\ req[r1].calls.search = 1
        /\ req[r1].delivered[Len(req[r1].delivered)] = ErrorEvent("search failed")
        /\ Admitted(r2) /\ req[r2].closed
        /\ req[r2].exc = "ranking failed" /\ req[r2].calls.rank = 1
        /\ req[r2].delivered[Len(req[r2].delivered)] = ErrorEvent("ranking failed")

(***************************************************************************)
(* C12.  When the retrieval stage ends with an empty candidate list (from  *)
(* the collaborator or from the cache), the request ends with a result     *)
(* event, not an error: substitutes = [], a non-empty message and no       *)
(* candidates_evaluated field.  The rest of the pipeline is skipped: no    *)
(* ranking call, no catalog fetch, no _cache_get or _cache_set on the      *)
(* ranking cache.                                                          *)
(***************************************************************************)
\* the retrieval stage of r has ended, without raising, with an empty list
EmptyCandidates(r) ==
    /\ Admitted(r) /\ ~ EmptyCategory(r)
    /\ req[r].exc = ""
    /\ req[r].candidates = <<>>
    /\ \/ req[r].pc \in {"s_set", "s_chk", "finally", "done"}
       \/ req[r].sLook = "hit"

C12_EmptyShortCircuits ==
    \A r \in Req : EmptyCandidates(r) =>
        /\ req[r].pc \in {"s_set", "s_chk", "finally", "done"}
        /\ req[r].calls.rank = 0 /\ req[r].calls.fetch = 0
        /\ req[r].gLook = "none"
        /\ req[r].calls.cache = (IF req[r].sLook = "hit" \/ req[r].pc = "s_set" THEN 1 ELSE 2)
        /\ \A i \in DOMAIN req[r].produced : req[r].produced[i].type # "error"
        /\ req[r].pc \in {"finally", "done"} =>
              LET last == req[r].produced[Len(req[r].produced)] IN
              /\ last.type = "result"
              /\ last.data.substitutes = <<>>
              /\ "message" \in DOMAIN last.data /\ last.data.message # ""
              /\ "candidates_evaluated" \notin DOMAIN last.data

\* two closed streams that ended with the empty result: the empty list came
\* from the collaborator for one, from the retrieval cache for the other
C12_Witness ==
    \E r1, r2 \in Req :
        /\ EmptyCandidates(r1) /\ req[r1].closed /\ req[r1].sLook = "miss"
        /\ EmptyCandidates(r2) /\ req[r2].closed /\ req[r2].sLook = "hit"
        /\ \A r \in {r1, r2} :
              /\ Len(req[r].delivered) = 2
              /\ req[r].delivered[2].type = "result"
              /\ req[r].delivered[2].data.substitutes = <<>>

(***************************************************************************)
(* Shared vocabulary of the enrichment claims.                             *)
(***************************************************************************)
\* r has pushed the result event of the enrichment stage
HasFullResult(r) ==
    /\ Admitted(r)
    /\ req[r].catalog # None
    /\ req[r].produced # <<>>
    /\ req[r].produced[Len(req[r].produced)].type = "result"

\* the substitutes list of that result event
ResultSubstitutes(r) == req[r].produced[Len(req[r].produced)].data.substitutes

\* the user's total spend by the derivation order, before rounding
UserTotal(it) ==
    IF it.total_price > 0 THEN it.total_price
    ELSE IF it.unit_price > 0 THEN it.unit_price * it.quantity
    ELSE 0

\* the user gave a positive total price or a positive unit price
PriceGiven(it) == it.total_price > 0 \/ it.unit_price > 0

\* the four price comparison fields of a substitute
ComparisonFields == {"savings", "savings_percentage", "their_unit_price", "their_total_spend"}

\* C13 but for its last sentence: the derivation order, and absent or present
\* comparison fields
DerivationOrder(it, sub) ==
    /\ PriceGiven(it) =>
          /\ \A f \in ComparisonFields : sub[f] # None
          /\ sub.their_total_spend = Some(Round2(UserTotal(it)))
          /\ sub.their_unit_price = Some(it.unit_price)
    /\ ~ PriceGiven(it) => \A f \in ComparisonFields : sub[f] = None

(***************************************************************************)
(* C13.  As claimed: their total spend is total_price if it is positive,   *)
(* else unit_price x quantity if unit_price is positive, else pricing is   *)
(* unavailable and the four comparison fields are absent; with pricing     *)
(* available they are never absent, and savings_percentage is 0 only when  *)
(* their total spend is exactly zero.                                      *)
(***************************************************************************)
C13_ZeroOnlyWhenNoSpend ==
    \A r \in Req : HasFullResult(r) =>
        \A i \in DOMAIN ResultSubstitutes(r) :
            LET sub == ResultSubstitutes(r)[i]
                it == req[r].item
            IN  /\ DerivationOrder(it, sub)
                /\ sub.savings_percentage = Some(0) => UserTotal(it) = 0

(***************************************************************************)
(* C13, amended.  The derivation order and the absent fields as claimed.   *)
(* With pricing available, savings_percentage is the fixed value 0 when    *)
(* their total spend is exactly zero, and round(savings / their total      *)
(* spend x 100, 2) otherwise, which is 0 as well when the savings are      *)
(* zero (in hundredths of a percent below).                                *)
(***************************************************************************)
C13_PricingDerivation ==
    \A r \in Req : HasFullResult(r) =>
        \A i \in DOMAIN ResultSubstitutes(r) :
            LET sub == ResultSubstitutes(r)[i]
                it == req[r].item
                total == UserTotal(it)
                ours == sub.qty_needed * sub.our_unit_price
            IN  /\ DerivationOrder(it, sub)
                /\ (PriceGiven(it) /\ total = 0) => sub.savings_percentage = Some(0)
                /\ (PriceGiven(it) /\ total # 0) =>
                      sub.savings_percentage = Some(RoundDiv((total - ours) * 10000, total))
                /\ (PriceGiven(it) /\ total # 0 /\ total = ours) =>
                      sub.savings_percentage = Some(0)

\* a result for a total price of 2.00 with a substitute that costs 2.00:
\* savings_percentage is 0 although their total spend is not
C13_Witness ==
    \E r \in Req :
        /\ HasFullResult(r)
        /\ req[r].item.total_price = 2000
        /\ \E i \in DOMAIN ResultSubstitutes(r) :
              /\ ResultSubstitutes(r)[i].their_total_spend = Some(2000)
              /\ ResultSubstitutes(r)[i].our_total_spend = 2000
              /\ ResultSubstitutes(r)[i].savings_percentage = Some(0)

(***************************************************************************)
(* C14.  Pricing law: for every substitute of a result with pricing        *)
(* available, the reported our_total_spend is round(qty_needed x           *)
(* our_unit_price, 2) and the reported savings are the reported            *)
(* their_total_spend minus the reported our_total_spend.                   *)
(***************************************************************************)
C14_PricingLaw ==
    \A r \in Req : HasFullResult(r) =>
        \A i \in DOMAIN ResultSubstitutes(r) :
            LET sub == ResultSubstitutes(r)[i] IN
            sub.savings # None =>
                /\ sub.our_total_spend = Round2(sub.qty_needed * sub.our_unit_price)
                /\ sub.savings[1] = sub.their_total_spend[1] - sub.our_total_spend

(***************************************************************************)
(* C15.  The substitutes of a result event are the items of the ranking    *)
(* answer whose SKU is in the fetched catalog, in the order of the ranking *)
(* answer: none added, repeated or moved.  A ranked SKU that the catalog   *)
(* lacks is dropped and the request still ends with its result.            *)
(***************************************************************************)
C15_RestrictedInOrder ==
    \A r \in Req : (Admitted(r) /\ req[r].catalog # None) =>
        LET InCatalog(sub) == sub.sku \in DOMAIN req[r].catalog[1]
            kept == SelectSeq(SubsOf(req[r].gemini_result), InCatalog)
        IN  /\ req[r].exc = ""
            /\ HasFullResult(r)
            /\ Len(ResultSubstitutes(r)) = Len(kept)
            /\ \A i \in DOMAIN kept :
                  \A f \in RequiredFields : ResultSubstitutes(r)[i][f] = kept[i][f]

\* the ranking answer p2, p1, p2 against a catalog holding p2 alone: the
\* result lists the first and the third item
C15_Witness ==
    \E r \in Req :
        /\ HasFullResult(r)
        /\ req[r].gemini_result = RankBackwards
        /\ DOMAIN req[r].catalog[1] = {"p2"}
        /\ Len(ResultSubstitutes(r)) = 2
        /\ ResultSubstitutes(r)[1].rank = 1
        /\ ResultSubstitutes(r)[2].rank = 3

(***************************************************************************)
(* C16.  A request rejected by the quota guard does no pipeline work and   *)
(* changes no shared state: find_substitutes is never started for it, no   *)
(* collaborator is called, and the step that rejects it leaves both caches *)
(* and the stored (date, count) records as they were.                      *)
(***************************************************************************)
C16_RejectChangesNothing ==
    /\ [](\A r \in Req : req[r].st = "rejected" =>
              /\ req[r].pc = "none"
              /\ req[r].calls = NoCalls
              /\ req[r].produced = <<>>
              /\ req[r].sLook = "none" /\ req[r].gLook = "none")
    /\ [][\A r \in Req :
              (req[r].st = "idle" /\ req'[r].st = "rejected") =>
                  /\ _request_counts' = _request_counts
                  /\ _search_cache' = _search_cache
                  /\ _gemini_cache' = _gemini_cache]_vars

\* a request was rejected while the client's record stands at (today, 1) and
\* the retrieval cache holds the entry of the request admitted before
C16_Witness ==
    \E r \in Req :
        /\ req[r].st = "rejected"
        /\ _request_counts[req[r].client] = [date |-> today, count |-> 1]
        /\ _search_cache # EmptyDict

(***************************************************************************)
(* C17.  No result event lists more than TOP_K_FINAL substitutes, whatever *)
(* list the ranking collaborator returns.                                  *)
(***************************************************************************)
C17_AtMostTopK ==
    \A r \in Req : HasFullResult(r) => Len(ResultSubstitutes(r)) <= TOP_K_FINAL

(***************************************************************************)
(* C18.  search_similar_products returns at most n_results candidates,     *)
(* none of them the non-empty excluded SKU, and they are the best          *)
(* n_results hits other than the excluded one, in the collection's own     *)
(* relevance order: the spare hit requested makes up for the excluded one. *)
(***************************************************************************)
C18_SearchContract ==
    (vsearch # None /\ vsearch[1].returned # None) =>
        LET call == vsearch[1]
            out == call.returned[1]
            Other(sku) == ~ (call.exclude_sku # "" /\ sku = call.exclude_sku)
            others == SelectSeq(call.hits, Other)
        IN  /\ Len(out) <= call.n_results
            /\ call.exclude_sku # "" =>
                    \A i \in 1..Len(out) : out[i] # call.exclude_sku
            /\ Len(out) = Minimum(call.n_results, Len(others))
            /\ \A i \in 1..Len(out) : out[i] = others[i]

\* the excluded SKU is among the first n_results hits and the spare hit fills its place
C18_Witness ==
    /\ vsearch # None
    /\ vsearch[1].hits = <<"p3", "p1", "p2", "p4">>
    /\ vsearch[1].exclude_sku = "p1"
    /\ vsearch[1].n_results = 2
    /\ vsearch[1].returned = Some(<<"p3", "p2">>)

(***************************************************************************)
(* C19.  The events of one request in the order find_substitutes and       *)
(* run_pipeline emit them.                                                 *)
(***************************************************************************)
Emitted(r) == req[r].produced

\* the status message that follows the search, for the candidates found
FoundStatus(candidates) ==
    StatusEvent("Found " \o ToString(Len(candidates)) \o " candidates - AI is ranking...")

\* C19 as stated: the event types are status, status, result, or a prefix
\* of that ended by one error event; no other sequence of types occurs
C19_StatusStatusResult ==
    \A r \in Req : Admitted(r) =>
        LET ev == Emitted(r)
            n == Len(ev)
        IN  /\ n <= 3
            /\ \A i \in 1..(n - 1) : ev[i].type = "status"
            /\ \A i \in 1..n : ev[i].type = "status" => i <= 2
            /\ \A i \in 1..n : ev[i].type = "result" => i = 3

\* C19: the events of a request are, in this order, the statuses
\* "Searching catalog...", "Found n candidates ..." and "Ranking complete
\* ...", cut short by one terminal event: a validation error before the
\* first status, an error after any status, the empty result after the
\* first status when the search finds nothing, or the full result after
\* the third; a finished request has its terminal event
C19_ProgressStream ==
    \A r \in Req : Admitted(r) =>
        LET ev == Emitted(r)
            n == Len(ev)
        IN  /\ n <= 4
            /\ \A i \in 1..(n - 1) : ev[i].type = "status"
            /\ \A i \in 1..n : ev[i].type = "status" =>
                  \/ i = 1 /\ ev[i] = StatusEvent("Searching catalog...")
                  \/ i = 2 /\ req[r].candidates # <<>>
                           /\ ev[i] = FoundStatus(req[r].candidates)
                  \/ i = 3 /\ ev[i] = StatusEvent("Ranking complete, fetching product details...")
            /\ \A i \in 1..n : ev[i].type = "result" =>
                  \/ i = 2 /\ req[r].candidates = <<>> /\ ev[i] = EmptyResult(req[r].item)
                  \/ i = 4 /\ "candidates_evaluated" \in DOMAIN ev[i].data
            /\ \A i \in 1..n : ev[i].type = "error" =>
                  (i = 1 <=> (EmptyCategory(r) /\ ev[i] = ValidationError))
            /\ req[r].pc = "done" => (n >= 1 /\ IsTerminal(ev[n]))

\* one request went through all three statuses to its result, another was
\* ended by an error after its second status
C19_Witness ==
    \E r1, r2 \in Req :
        /\ Admitted(r1) /\ req[r1].pc = "done" /\ Len(Emitted(r1)) = 4
        /\ \A i \in 1..3 : Emitted(r1)[i].type = "status"
        /\ Emitted(r1)[4].type = "result"
        /\ Admitted(r2) /\ req[r2].pc = "done"
        /\ Len(Emitted(r2)) = 3
        /\ Emitted(r2)[1] = StatusEvent("Searching catalog...")
        /\ Emitted(r2)[2] = FoundStatus(req[r2].candidates)
        /\ Emitted(r2)[3].type = "error"

(***************************************************************************)
(* C20.  With CACHE_TTL > 0 an entry is valid only while                   *)
(* now - timestamp < CACHE_TTL.  A _cache_get within TTL returns the       *)
(* stored payload and leaves the stores as they are; a _cache_get that     *)
(* does not return the payload leaves no entry under its key; and an entry *)
(* leaves a store only when it is at or past TTL (nothing removes a valid  *)
(* entry; a write replaces the entry of its own key only).                 *)
(***************************************************************************)
Expired(store, key) == (now - store[key].ts) >= CACHE_TTL

\* the entries of the other keys are as they were
OthersKept(store, after, key) ==
    \A k \in DOMAIN store : k # key => (k \in DOMAIN after /\ after[k] = store[k])

C20_PassiveExpiry ==
    /\ [][CacheEnabled =>
            /\ \A k \in DOMAIN _search_cache :
                   k \notin DOMAIN _search_cache' => Expired(_search_cache, k)
            /\ \A k \in DOMAIN _gemini_cache :
                   k \notin DOMAIN _gemini_cache' => Expired(_gemini_cache, k)]_vars
    /\ [][\A r \in Req : Admitted(r) =>
            LET sk == SearchKeyOf(req[r].item)
                gk == _gemini_key(req[r].item)
            IN  /\ (req[r].pc = "s_get" /\ req'[r].pc = "s_chk") =>
                      /\ ~ Expired(_search_cache, sk)
                      /\ req'[r].candidates = _search_cache[sk].payload
                      /\ caches' = caches
                /\ (req[r].pc = "s_pop" /\ req'[r].pc = "search") =>
                      /\ sk \notin DOMAIN _search_cache'
                      /\ OthersKept(_search_cache, _search_cache', sk)
                /\ (req[r].pc = "s_set" /\ req'[r].pc = "s_chk") =>
                      OthersKept(_search_cache, _search_cache', sk)
                /\ (req[r].pc = "g_get" /\ req'[r].pc = "g_done") =>
                      /\ ~ Expired(_gemini_cache, gk)
                      /\ req'[r].gemini_result = _gemini_cache[gk].payload
                      /\ caches' = caches
                /\ (req[r].pc = "g_pop" /\ req'[r].pc = "rank") =>
                      /\ gk \notin DOMAIN _gemini_cache'
                      /\ OthersKept(_gemini_cache, _gemini_cache', gk)
                /\ (req[r].pc = "g_set" /\ req'[r].pc = "g_done") =>
                      OthersKept(_gemini_cache, _gemini_cache', gk)]_vars

(***************************************************************************)
(* C21.  No increment of the quota count is lost, whatever requests are in *)
(* flight when a handler runs: the count stored for a client equals the    *)
(* number of its requests admitted on the stored date and is at most       *)
(* MAX_REQUESTS_PER_USER; and while the stored date stays the same the     *)
(* count never decreases, and a stored record never disappears.            *)
(***************************************************************************)
C21_NoLostIncrement ==
    /\ [](\A c \in DOMAIN _request_counts :
             /\ _request_counts[c].count = admitted[c][_request_counts[c].date]
             /\ _request_counts[c].count <= MAX_REQUESTS_PER_USER)
    /\ [][\A c \in DOMAIN _request_counts :
             /\ c \in DOMAIN _request_counts'
             /\ _request_counts'[c].date = _request_counts[c].date =>
                    _request_counts'[c].count >= _request_counts[c].count]_vars

\* two requests of one client are in flight at once, both admitted on the
\* same date, and the client's stored count is 2
C21_Witness ==
    \E r1, r2 \in Req :
        /\ r1 # r2
        /\ req[r1].st = "admitted" /\ req[r2].st = "admitted"
        /\ req[r1].client = req[r2].client
        /\ _request_counts[req[r1].client] = [date |-> today, count |-> 2]
        /\ admitted[req[r1].client][today] = 2

(***************************************************************************)
(* C22.  The ranking answer a request uses, fresh or from the ranking      *)
(* cache, was computed from the candidate list of that same request: every *)
(* SKU it ranks, and so every substitute of the result event, is one of    *)
(* the request's candidates, the list that candidates_evaluated counts.    *)
(***************************************************************************)
CandidateSkus(r) == { req[r].candidates[i] : i \in DOMAIN req[r].candidates }

\* the request has its ranking answer
Ranked(r) ==
    /\ Admitted(r)
    /\ req[r].exc = ""
    /\ req[r].pc \in {"g_set", "g_done", "enrich", "finally", "done"}
    /\ req[r].gemini_result # EmptyDict

C22_RankedFromOwnCandidates ==
    \A r \in Req :
        /\ Ranked(r) =>
              \A i \in DOMAIN SubsOf(req[r].gemini_result) :
                  SubsOf(req[r].gemini_result)[i].sku \in CandidateSkus(r)
        /\ HasFullResult(r) =>
              /\ \A i \in DOMAIN ResultSubstitutes(r) :
                     ResultSubstitutes(r)[i].sku \in CandidateSkus(r)
              /\ req[r].produced[Len(req[r].produced)].data.candidates_evaluated
                     = Len(req[r].candidates)

(***************************************************************************)
(* C23.  A ranking answer stays in the ranking cache only if the request   *)
(* that obtained it from rank_substitutes ends with a result event: once   *)
(* that request has failed, no valid entry of the ranking cache holds its  *)
(* answer.                                                                 *)
(***************************************************************************)
\* the request obtained its ranking answer from rank_substitutes and failed after that
FailedAfterRanking(r) ==
    /\ Admitted(r)
    /\ req[r].gLook = "miss" /\ req[r].calls.rank = 1
    /\ req[r].gemini_result # EmptyDict
    /\ req[r].exc # ""
    /\ req[r].pc \in {"finally", "done"}

C23_FailedNotCached ==
    \A r \in Req : FailedAfterRanking(r) =>
        LET key == _gemini_key(req[r].item) IN
        ~ (CacheFresh(_gemini_cache, key)
             /\ _gemini_cache[key].payload = req[r].gemini_result)

(***************************************************************************)
(* C24.  A request whose collaborator call fails writes nothing for that   *)
(* stage.  An entry counts while it is valid (now - timestamp < TTL); the  *)
(* lookup's eviction of an expired entry is no change of what the cache    *)
(* holds.  Of the steps of a request only its own _cache_set changes the   *)
(* valid entries of a store; a request whose search raised has called      *)
(* _cache_get once and _cache_set never, and has not touched the ranking   *)
(* cache; a request whose ranking raised has made no _cache_set on the     *)
(* ranking cache; from the failing call on no step of the request changes  *)
(* either store; and after its retrieval write no step of the request      *)
(* touches the retrieval cache, so the entry it wrote is kept.             *)
(***************************************************************************)
ValidEntries(store) ==
    [k \in {x \in DOMAIN store : (now - store[x].ts) < CACHE_TTL} |-> store[k]]

C24_FailureWritesNothing ==
    /\ [](\A r \in Req : Admitted(r) =>
             /\ req[r].exc = "search failed" =>
                    (req[r].calls.cache = 1 /\ req[r].gLook = "none")
             /\ req[r].exc = "ranking failed" =>
                    req[r].calls.cache = (IF req[r].sLook = "hit" THEN 2 ELSE 3))
    /\ [][\A r \in Req :
             (Admitted(r) /\ req'[r] # req[r] /\ req'[r].st = "admitted") =>
                /\ req'[r].exc # "" => caches' = caches
                /\ req[r].pc # "s_set" =>
                       ValidEntries(_search_cache') = ValidEntries(_search_cache)
                /\ req[r].pc # "g_set" =>
                       ValidEntries(_gemini_cache') = ValidEntries(_gemini_cache)
                /\ req[r].pc \notin {"s_pop", "s_set"} => _search_cache' = _search_cache]_vars

(***************************************************************************)
(* C25.  Stream termination.  Every admitted request's stream is           *)
(* eventually closed: run_pipeline reaches its end, the draining loop      *)
(* takes the sentinel and stops.  The sentinel is put exactly once, when   *)
(* run_pipeline ends, behind every event; the producer can always take its *)
(* next step whatever the queue holds (it never blocks on the queue); and  *)
(* a closed stream has delivered every event produced and left nothing in  *)
(* the queue.                                                              *)
(***************************************************************************)
\* the sentinels of request r that are scheduled or queued
Sentinels(r) ==
    LET IsSentinel(e) == e = Sentinel
    IN  Len(SelectSeq(req[r].queue \o req[r].ready, IsSentinel))

C25_StreamTerminates ==
    /\ \A r \in Req : Admitted(r) ~> (Admitted(r) /\ req[r].closed)
    /\ [](\A r \in Req : Admitted(r) =>
             LET s == req[r].queue \o req[r].ready IN
             /\ Sentinels(r) = (IF req[r].pc = "done" /\ ~ req[r].closed THEN 1 ELSE 0)
             /\ Sentinels(r) = 1 => s[Len(s)] = Sentinel
             /\ req[r].pc # "done" => ENABLED Pipeline(r)
             /\ req[r].closed =>
                    /\ req[r].pc = "done" /\ s = <<>>
                    /\ Len(req[r].delivered) = Len(req[r].produced)
             /\ (~ req[r].closed /\ req[r].pc = "done") =>
                    (ENABLED LoopCallback(r) \/ ENABLED EventStream(r)))

\* two streams have ended, one after four events and one after the single
\* validation error, with nothing left in either queue
C25_Witness ==
    \E r1, r2 \in Req :
        /\ Admitted(r1) /\ req[r1].closed /\ Len(req[r1].delivered) = 4
        /\ Admitted(r2) /\ req[r2].closed /\ req[r2].delivered = <<ValidationError>>
        /\ \A r \in {r1, r2} : req[r].queue = <<>> /\ req[r].ready = <<>>

=============================================================================
